---- MODULE Spec2Model ----
(***************************************************************************)
(* Model of the comic-weaver generation orchestration engine:              *)
(*   - the image request scheduler of services/geminiService.ts            *)
(*     (queue, in-flight counter, trailing start window, wake-up timers);  *)
(*   - the chapter and ending pipelines of state/storyMachine.ts           *)
(*     (actors generateChapter and generateEnding);                        *)
(*   - the story state machine of state/storyMachine.ts.                   *)
(*                                                                         *)
(* Numbers.  Times are milliseconds.  Mood values and impacts are held in  *)
(* twentieths (0.05 = 1, 0.25 = 5, 1.0 = 20); a missing numeric field      *)
(* (JavaScript undefined, NaN after arithmetic) is the value NaN below and *)
(* the F* operators give it the IEEE behaviour the code relies on.         *)
(***************************************************************************)
EXTENDS Integers, Sequences, FiniteSets, Bags, TLC

(***************************************************************************)
(* Bounds of the exploration                                               *)
(***************************************************************************)
MaxTasks == 5
MaxTime == 60005
MaxInvocations == 2
MaxFaults == 1
MaxFailingTasks == 1
MaxRetryTasks == 4

(***************************************************************************)
(* Program constants                                                       *)
(***************************************************************************)
IMAGE_RPM_LIMIT == 10
IMAGE_CONCURRENCY_LIMIT == 3
ONE_MINUTE_MS == 60000
WakeSlackMs == 5

\* the clock is observed every half window and at every timer deadline
TickStep == ONE_MINUTE_MS \div 2

VARIABLES
  now,                  \* Date.now()
  imageQueue,           \* FIFO of queued task ids
  imageInFlight,        \* counter of started, unsettled tasks
  imageStartTimestamps, \* start times inside the trailing window
  timersDue,            \* setTimeout(processImageQueue) callbacks that are due
  timers,               \* bag of deadlines of the callbacks not yet due
  nextTask,             \* id the next scheduleImageTask call gets
  running,              \* ids whose run() promise has not settled
  promise,              \* id -> "none" | "pending" | "resolved" | "rejected"
  startLog              \* every start ever made: sequence of [id, at]

schedVars == <<now, imageQueue, imageInFlight, imageStartTimestamps,
               timersDue, timers, nextTask, running, promise, startLog>>

VARIABLES
  state,        \* state value of the story machine
  context,      \* StoryContext
  gen,          \* locals of the pipeline invocation in progress (or last settled)
  saved,        \* the 'currentState' record of the persistent store, or Null
  invocations,  \* pipeline invocations made so far
  faults,       \* backend failures and empty audio results so far
  revoked,      \* the handles the last handler that revokes object URLs
                \* passed to URL.revokeObjectURL
  abandoned     \* the invocations whose state was left by EXIT_TO_MENU before
                \* their promise settled: [run, outcome, settledIn]

storyVars == <<state, context, gen, saved, invocations, faults, revoked,
               abandoned>>

VARIABLES
  attempt,      \* id -> the local variable attempt of the task's retryWithBackoff
  attemptLog,   \* id -> outcomes of the fn() calls made so far, in order
  wakeAt,       \* id -> deadline of the backoff setTimeout awaited, or -1
  retryLog,     \* requests re-issued after a backoff: set of [id, attempt, at]
  settledWith   \* id -> the value handed to task.resolve or task.reject

retryVars == <<attempt, attemptLog, wakeAt, retryLog, settledWith>>

vars == <<schedVars, storyVars, retryVars>>

Max(a, b) == IF a >= b THEN a ELSE b
Min(a, b) == IF a <= b THEN a ELSE b

\* the tasks of the opening burst (see WarmUp), which leaves room in the
\* window for one full pool
WarmTasks == IMAGE_RPM_LIMIT - IMAGE_CONCURRENCY_LIMIT

TaskIds == 1..(WarmTasks + MaxTasks)

\* the scheduled runs that end in a rejection (every other run resolves)
RejectingRuns == {3, 9}

(***************************************************************************)
(* Request scheduler                                                       *)
(***************************************************************************)
PruneOldStarts(ts, t) == SelectSeq(ts, LAMBDA s : t - s < ONE_MINUTE_MS)

CanStartMore_NoPool(inf, ts, t) ==
  Len(PruneOldStarts(ts, t)) < IMAGE_RPM_LIMIT

CanStartMore_NoWindow(inf, ts, t) ==
  inf < IMAGE_CONCURRENCY_LIMIT

CanStartMore(inf, ts, t) ==
  /\ inf < IMAGE_CONCURRENCY_LIMIT
  /\ Len(PruneOldStarts(ts, t)) < IMAGE_RPM_LIMIT

RECURSIVE StartLoop_Pop(_, _, _, _, _)
StartLoop_Pop(q, inf, ts, st, t) ==
  IF CanStartMore(inf, ts, t) /\ Len(q) > 0
  THEN StartLoop_Pop(SubSeq(q, 1, Len(q) - 1), inf + 1,
                     Append(PruneOldStarts(ts, t), t), Append(st, q[Len(q)]), t)
  ELSE [queue |-> q, inFlight |-> inf, stamps |-> PruneOldStarts(ts, t),
        started |-> st]

\* the while loop of processImageQueue: shift, count, stamp, run
RECURSIVE StartLoop(_, _, _, _, _)
StartLoop(q, inf, ts, st, t) ==
  IF CanStartMore(inf, ts, t) /\ Len(q) > 0
  THEN StartLoop(Tail(q), inf + 1, Append(PruneOldStarts(ts, t), t),
                 Append(st, Head(q)), t)
  ELSE [queue |-> q, inFlight |-> inf, stamps |-> PruneOldStarts(ts, t),
        started |-> st]

ProcessImageQueue_NoWake(q, inf, ts, t) ==
  LET r == StartLoop(q, inf, PruneOldStarts(ts, t), <<>>, t)
  IN [queue |-> r.queue, inFlight |-> r.inFlight, stamps |-> r.stamps,
      started |-> r.started, wake |-> -1]

\* processImageQueue: the loop, then the wake-up computation; wake = -1 when
\* no timer is armed, else the delay handed to scheduleNextTick
ProcessImageQueue(q, inf, ts, t) ==
  LET r == StartLoop(q, inf, PruneOldStarts(ts, t), <<>>, t)
      blocked == Len(r.queue) > 0 /\ ~CanStartMore(r.inFlight, r.stamps, t)
      oldest == IF Len(r.stamps) > 0 THEN r.stamps[1] ELSE t
      msUntilWindowFrees == Max(0, ONE_MINUTE_MS - (t - oldest))
  IN [queue |-> r.queue, inFlight |-> r.inFlight, stamps |-> r.stamps,
      started |-> r.started,
      wake |-> IF blocked THEN msUntilWindowFrees + WakeSlackMs ELSE -1]

\* scheduleNextTick(delayMs) applied to the pending timers
ScheduleNextTick(bag, delayMs) == bag (+) SetToBag({now + delayMs})

\* effects of one processImageQueue call on the scheduler state
ApplyProcess(q, inf, due) ==
  LET r == ProcessImageQueue(q, inf, imageStartTimestamps, now)
      ids == {r.started[i] : i \in 1..Len(r.started)}
  IN /\ imageQueue' = r.queue
     /\ imageInFlight' = r.inFlight
     /\ imageStartTimestamps' = r.stamps
     /\ running' = running \cup ids
     /\ startLog' = startLog \o [i \in 1..Len(r.started) |->
                                    [id |-> r.started[i], at |-> now]]
     /\ timersDue' = due
     /\ timers' = IF r.wake >= 0 THEN ScheduleNextTick(timers, r.wake)
                  ELSE timers

\* scheduleImageTask(run): push, then processImageQueue
ScheduleImageTask ==
  /\ nextTask <= (IF nextTask <= WarmTasks THEN MaxTasks ELSE WarmTasks + MaxTasks)
  /\ nextTask' = nextTask + 1
  /\ promise' = [promise EXCEPT ![nextTask] = "pending"]
  /\ ApplyProcess(Append(imageQueue, nextTask), imageInFlight, timersDue)
  /\ UNCHANGED <<now, storyVars, retryVars>>

\* an opening burst taken in one step: WarmTasks calls of scheduleImageTask,
\* each task started at once (the pool has room), settled, and its
\* setTimeout(processImageQueue, 0) callback run before the next call
WarmBurst ==
  /\ nextTask = 1
  /\ timersDue = 0 /\ timers = EmptyBag
  /\ nextTask' = WarmTasks + 1
  /\ promise' = [i \in TaskIds |->
                   IF i > WarmTasks THEN promise[i]
                   ELSE IF i \in RejectingRuns THEN "rejected" ELSE "resolved"]
  /\ imageStartTimestamps' = [i \in 1..WarmTasks |-> now]
  /\ startLog' = [i \in 1..WarmTasks |-> [id |-> i, at |-> now]]
  /\ UNCHANGED <<now, imageQueue, imageInFlight, timersDue, timers, running>>

\* the burst, whatever the run functions are
WarmUp == WarmBurst /\ UNCHANGED <<storyVars, retryVars>>

\* the promise chain of a started task: task.resolve or task.reject, then
\* the finally handler (the counter goes down, scheduleNextTick(0))
Settle(id, ok) ==
  /\ running' = running \ {id}
  /\ promise' = [promise EXCEPT ![id] = IF ok THEN "resolved" ELSE "rejected"]
  /\ imageInFlight' = imageInFlight - 1
  /\ timersDue' = timersDue + 1
  /\ UNCHANGED <<now, imageQueue, imageStartTimestamps, timers, nextTask,
                 startLog>>

\* run() settles, whatever run is
TaskSettles(id, ok) ==
  /\ id \in running
  /\ ok = (id \notin RejectingRuns)
  /\ Settle(id, ok)
  /\ UNCHANGED <<storyVars, retryVars>>

\* a due setTimeout callback runs processImageQueue
TimerFires ==
  /\ timersDue > 0
  /\ ApplyProcess(imageQueue, imageInFlight, timersDue - 1)
  /\ UNCHANGED <<now, nextTask, promise, storyVars, retryVars>>

\* the clock advances to t; timers whose deadline is reached become due
ClockReaches(t) ==
  LET reached == {d \in BagToSet(timers) : d <= t}
      n == BagCardinality([d \in reached |-> CopiesIn(d, timers)])
  IN /\ t > now
     /\ now' = t
     /\ timersDue' = timersDue + n
     /\ timers' = [d \in (BagToSet(timers) \ reached) |-> CopiesIn(d, timers)]
     /\ UNCHANGED <<imageQueue, imageInFlight, imageStartTimestamps, nextTask,
                    running, promise, startLog, storyVars, retryVars>>

\* the same, inside the time explored
AdvanceTo(t) == t <= MaxTime /\ ClockReaches(t)

Tick == AdvanceTo(now + TickStep)

\* the clock reaches the earliest pending deadline exactly
TickToTimer ==
  /\ BagToSet(timers) # {}
  /\ \E d \in BagToSet(timers) :
       /\ \A e \in BagToSet(timers) : d <= e
       /\ AdvanceTo(d)

\* the same, and past the time explored once nothing is in flight: the
\* wake-up a waiting queue depends on is always reached
TimerComesDue ==
  /\ BagToSet(timers) # {}
  /\ \E d \in BagToSet(timers) :
       /\ \A e \in BagToSet(timers) : d <= e
       /\ d <= MaxTime \/ running = {}
       /\ ClockReaches(d)

SchedInit ==
  /\ now = 0
  /\ imageQueue = <<>>
  /\ imageInFlight = 0
  /\ imageStartTimestamps = <<>>
  /\ timersDue = 0
  /\ timers = EmptyBag
  /\ nextTask = 1
  /\ running = {}
  /\ promise = [i \in TaskIds |-> "none"]
  /\ startLog = <<>>
  /\ attempt = [i \in TaskIds |-> 0]
  /\ attemptLog = [i \in TaskIds |-> <<>>]
  /\ wakeAt = [i \in TaskIds |-> -1]
  /\ retryLog = {}
  /\ settledWith = [i \in TaskIds |-> "none"]


(***************************************************************************)
(* Retries inside a started task: run = () => retryWithBackoff(runRequest) *)
(***************************************************************************)
retries == 3
baseDelayMs == 250
maxDelayMs == 1000

\* the values Math.floor(Math.random() * base) is drawn from: both ends
Jitters == {0, baseDelayMs - 1}

NoValue == [t |-> "undefined", n |-> 0, s |-> ""]
Num(n) == [t |-> "number", n |-> n, s |-> ""]
Str(s) == [t |-> "string", n |-> 0, s |-> s]

\* a || b
OrElse(a, b) ==
  IF (a.t = "number" /\ a.n # 0) \/ (a.t = "string" /\ a.s # "") THEN a ELSE b

\* String.prototype.toLowerCase on the letters the messages below use
LowerChar(c) ==
  CASE c = "Q" -> "q" [] c = "R" -> "r" [] c = "T" -> "t" [] OTHER -> c

ToLowerCase(m) == [i \in 1..Len(m) |-> LowerChar(m[i])]

\* String.prototype.includes
Includes(m, w) ==
  \E i \in 0..(Len(m) - Len(w)) : \A j \in 1..Len(w) : m[i + j] = w[j]

WordRate == <<"r", "a", "t", "e">>
WordQuota == <<"q", "u", "o", "t", "a">>
WordTooMany == <<"t", "o", "o", " ", "m", "a", "n", "y", " ",
                 "r", "e", "q", "u", "e", "s", "t", "s">>
Word429 == <<"4", "2", "9">>

\* the errors a request can be rejected with: status, code and message
ErrorTable ==
  [ status429 |-> [status |-> Num(429), code |-> NoValue, message |-> <<>>],
    exhausted |-> [status |-> NoValue, code |-> Str("RESOURCE_EXHAUSTED"),
                   message |-> <<"f", "u", "l", "l">>],
    quota     |-> [status |-> Num(403), code |-> NoValue,
                   message |-> <<"Q", "u", "o", "t", "a", " ", "h", "i", "t">>],
    tooMany   |-> [status |-> NoValue, code |-> NoValue,
                   message |-> <<"T", "o", "o", " ", "m", "a", "n", "y", " ",
                                 "R", "e", "q", "u", "e", "s", "t", "s">>],
    text429   |-> [status |-> Num(500), code |-> NoValue,
                   message |-> <<"g", "o", "t", " ", "4", "2", "9">>],
    server    |-> [status |-> Num(500), code |-> NoValue,
                   message |-> <<"i", "n", "t", "e", "r", "n", "a", "l">>],
    network   |-> [status |-> NoValue, code |-> NoValue,
                   message |-> <<"f", "e", "t", "c", "h">>] ]

isRateLimitError(err) ==
  LET status == OrElse(err.status, err.code)
      message == ToLowerCase(err.message)
  IN \/ status = Num(429)
     \/ status = Str("RESOURCE_EXHAUSTED")
     \/ Includes(message, WordRate)
     \/ Includes(message, WordQuota)
     \/ Includes(message, WordTooMany)
     \/ Includes(message, Word429)

Rethrows_BudgetOnly(err, att) == att >= retries

Rethrows_OneMore(err, att) ==
  ~isRateLimitError(err) \/ att > retries

\* the test of the catch block: throw err, or back off and go round again
Rethrows(err, att) ==
  ~isRateLimitError(err) \/ att >= retries

RECURSIVE Pow2(_)
Pow2(n) == IF n = 0 THEN 1 ELSE 2 * Pow2(n - 1)

BackoffDelay_NoCap(att, jitter) ==
  baseDelayMs * Pow2(att) + jitter

\* Math.min(max, base * Math.pow(2, attempt)) + jitter
BackoffDelay(att, jitter) ==
  Min(maxDelayMs, baseDelayMs * Pow2(att)) + jitter

\* the tasks, the opening burst apart, that had a request rejected so far
FailingTasks ==
  {i \in TaskIds : /\ nextTask > WarmTasks => i > WarmTasks
                   /\ \E k \in 1..Len(attemptLog[i]) : attemptLog[i][k] # "ok"}

Requesting_Unadmitted(id) == promise[id] = "pending" /\ wakeAt[id] < 0

\* task id awaits fn(): started, not settled, not in a backoff
Requesting(id) == id \in running /\ wakeAt[id] < 0

\* fn() resolves: retryWithBackoff returns the result, task.resolve, finally
AttemptSucceeds(id) ==
  /\ Requesting(id)
  /\ attemptLog' = [attemptLog EXCEPT ![id] = Append(@, "ok")]
  /\ settledWith' = [settledWith EXCEPT ![id] = "ok"]
  /\ Settle(id, TRUE)
  /\ UNCHANGED <<attempt, wakeAt, retryLog, storyVars>>

\* fn() rejects with err: rethrown (task.reject, finally), or a backoff begins
AttemptFails(id, e, jitter) ==
  /\ Requesting(id)
  /\ id \in FailingTasks \/ Cardinality(FailingTasks) < MaxFailingTasks
  /\ attemptLog' = [attemptLog EXCEPT ![id] = Append(@, e)]
  /\ IF Rethrows(ErrorTable[e], attempt[id])
     THEN /\ jitter = 0
          /\ settledWith' = [settledWith EXCEPT ![id] = e]
          /\ Settle(id, FALSE)
          /\ UNCHANGED <<attempt, wakeAt, retryLog, storyVars>>
     ELSE /\ wakeAt' = [wakeAt EXCEPT
                          ![id] = now + BackoffDelay(attempt[id], jitter)]
          /\ UNCHANGED <<schedVars, attempt, retryLog, settledWith, storyVars>>

\* the backoff timer of task id has run out: attempt += 1 and fn() is called
BackoffEnds(id) ==
  /\ id \in running
  /\ wakeAt[id] >= 0
  /\ wakeAt[id] <= now
  /\ wakeAt' = [wakeAt EXCEPT ![id] = -1]
  /\ attempt' = [attempt EXCEPT ![id] = @ + 1]
  /\ retryLog' = retryLog \cup {[id |-> id, attempt |-> attempt[id] + 1,
                                 at |-> now]}
  /\ UNCHANGED <<schedVars, attemptLog, settledWith, storyVars>>

\* the opening burst when run is retryWithBackoff(runRequest): each request
\* of the burst is answered at its first attempt
RetryWarmUp ==
  /\ WarmBurst
  /\ attemptLog' = [i \in TaskIds |->
                      IF i > WarmTasks THEN attemptLog[i]
                      ELSE IF i \in RejectingRuns THEN <<"server">> ELSE <<"ok">>]
  /\ settledWith' = [i \in TaskIds |->
                       IF i > WarmTasks THEN settledWith[i]
                       ELSE IF i \in RejectingRuns THEN "server" ELSE "ok"]
  /\ UNCHANGED <<attempt, wakeAt, retryLog, storyVars>>

\* the clock reaches the earliest backoff deadline not yet reached
TickToBackoff ==
  LET ds == {wakeAt[i] : i \in running}
      pending == {d \in ds : d > now}
  IN \E d \in pending :
       /\ \A e \in pending : d <= e
       /\ AdvanceTo(d)

(***************************************************************************)
(* JavaScript numbers, in twentieths                                       *)
(***************************************************************************)
One == 20
Quarter == 5
NaN == 0 - 1000

FAdd(x, y) == IF x = NaN \/ y = NaN THEN NaN ELSE x + y
FMin(x, y) == IF x = NaN \/ y = NaN THEN NaN ELSE Min(x, y)
FGe(x, y) == x # NaN /\ y # NaN /\ x >= y
FGt(x, y) == x # NaN /\ y # NaN /\ x > y

(***************************************************************************)
(* Values of types.ts                                                      *)
(***************************************************************************)
\* Object.keys order of a MoodVector literal
MoodKeys == <<"adventure", "danger", "romance", "drama">>
Axes == {MoodKeys[i] : i \in 1..4}

Undefined == "undefined"
Null == "null"

MoodOf(a, d, r, m) == [adventure |-> a, danger |-> d, romance |-> r, drama |-> m]

\* a Choice as it arrives from the backend: text is a string or Undefined,
\* hasImpact tells whether an impact object is present, and an impact axis
\* that is absent from the JSON is NaN
ChoiceOf(t, a, d, r, m) == [text |-> t, hasImpact |-> TRUE, impact |-> MoodOf(a, d, r, m)]

cAdv == ChoiceOf("adv", 3, 0, 0, 0)
cDan == ChoiceOf("dan", 0, 3, 0, 0)
cRom == ChoiceOf("rom", 0, 0, 3, 0)
cDra == ChoiceOf("dra", 0, 0, 0, 15)
cBig == ChoiceOf("big", 16, 0, 0, 0)
cTie == ChoiceOf("tie", 16, 16, 0, 0)
cNeg == ChoiceOf("neg", 0 - 6, 0, 0, 0)
cNoDrama == ChoiceOf("nodrama", 3, 0, 0, NaN)

\* the choices the backend hands out; ChoiceButtons sends one of the offered
\* choices with MAKE_CHOICE
MadeChoices == {cAdv, cDan, cRom, cDra, cBig, cTie, cNeg, cNoDrama}

ChoiceByText(t) == CHOOSE c \in MadeChoices : c.text = t

\* what generateChoicesFallback returns when it does not throw
FallbackChoiceSets == { <<cAdv, cDan, cRom, cDra>>, <<cAdv, cNoDrama>> }

NpcOf(n, d) == [name |-> n, description |-> d]
\* panel counts of the ending, and the perPanel stinger prompts an audio
\* brief carries
EndingPanelCounts == {4}
StingerPromptSets == { <<TRUE, TRUE, TRUE, FALSE>> }

initialContext ==
  [ mood |-> MoodOf(Quarter, Quarter, Quarter, Quarter),
    theme |-> Null,
    choices |-> <<>>,
    allPanels |-> <<>>,
    currentPanelIndex |-> 0,
    characterReference |-> Undefined,
    characterDescription |-> Undefined,
    isGenerating |-> FALSE,
    error |-> Null,
    ending |-> Null,
    backgroundMusic |-> Undefined,
    isMuted |-> FALSE,
    apiKey |-> Undefined,
    elevenLabsApiKey |-> Undefined,
    lastChoiceText |-> Undefined,
    npcs |-> <<>> ]

\* JavaScript truthiness of an optional string
Truthy(s) == s # Undefined /\ s # Null /\ s # ""


(***************************************************************************)
(* Pure parts of the machine's transitions                                 *)
(***************************************************************************)
\* newMood of the MAKE_CHOICE assigns: Math.min(1.0, old + impact) per axis
MoodAfter(mood, impact) ==
  [a \in Axes |-> FMin(One, FAdd(mood[a], impact[a]))]

EndingGuard_MoodOnly(mood, impact) ==
  \E a \in Axes : FGe(mood[a], One)

\* guard of the first MAKE_CHOICE transition
EndingGuard(mood, impact) ==
  \/ FGe(FAdd(mood.adventure, impact.adventure), One)
  \/ FGe(FAdd(mood.danger, impact.danger), One)
  \/ FGe(FAdd(mood.romance, impact.romance), One)
  \/ FGe(FAdd(mood.drama, impact.drama), One)

\* Object.keys(newMood).reduce((a, b) => newMood[a] > newMood[b] ? a : b)
RECURSIVE ReduceMaxMood(_, _, _)
ReduceMaxMood(newMood, a, i) ==
  IF i > Len(MoodKeys) THEN a
  ELSE ReduceMaxMood(newMood,
                     IF FGt(newMood[a], newMood[MoodKeys[i]]) THEN a ELSE MoodKeys[i],
                     i + 1)

MaxMood(newMood) == ReduceMaxMood(newMood, MoodKeys[1], 2)

\* generateEnding: ending ?? keys.reduce((best, key) => mood[key] > mood[best] ? key : best, 'adventure')
RECURSIVE ReduceBest(_, _, _)
ReduceBest(mood, best, i) ==
  IF i > Len(MoodKeys) THEN best
  ELSE ReduceBest(mood,
                  IF FGt(mood[MoodKeys[i]], mood[best]) THEN MoodKeys[i] ELSE best,
                  i + 1)

DominantMood(ending, mood) ==
  IF ending # Null THEN ending ELSE ReduceBest(mood, "adventure", 1)

\* generateChapter: validChoice and the test that decides on the fallback call
validChoice(c) ==
  /\ c.text # Undefined
  /\ c.hasImpact
  /\ c.impact.adventure # NaN

ChoicesAccepted(cs) ==
  /\ Len(cs) = 4
  /\ \A i \in 1..Len(cs) : validChoice(cs[i])

\* npcs.find((n) => n.name === npc.name && n.description === npc.description):
\* index of the first match in the roster, 0 when there is none
NpcFind_NameOnly(roster, npc) ==
  IF \E k \in 1..Len(roster) : roster[k].name = npc.name
  THEN CHOOSE k \in 1..Len(roster) :
         /\ roster[k].name = npc.name
         /\ \A j \in 1..(k - 1) : roster[j].name # npc.name
  ELSE 0

NpcFind(roster, npc) ==
  LET hit(k) == roster[k].name = npc.name /\ roster[k].description = npc.description
  IN IF \E k \in 1..Len(roster) : hit(k)
     THEN CHOOSE k \in 1..Len(roster) : hit(k) /\ \A j \in 1..(k - 1) : ~hit(j)
     ELSE 0

maxSfx == 4
maxStingers == 2

AcceptDescription_Always(charDesc, supplied) ==
  IF Truthy(supplied) THEN supplied ELSE charDesc

\* if (!charDesc && director.characterDescription) charDesc = director.characterDescription
AcceptDescription(charDesc, supplied) ==
  IF ~Truthy(charDesc) /\ Truthy(supplied) THEN supplied ELSE charDesc

(***************************************************************************)
(* Locals of the pipeline invocation (actor) of the current generating or  *)
(* endingGenerating state                                                  *)
(***************************************************************************)
GenIdle ==
  [ kind |-> "none", pc |-> "idle", input |-> initialContext,
    charDesc |-> Undefined, referencePage |-> FALSE, panelCount |-> 0,
    directorPanels |-> FALSE, storyData |-> FALSE,
    directorChoices |-> <<>>, directorNewNpcs |-> <<>>,
    createdOrReusedNpcs |-> <<>>, portraitCalls |-> {},
    stingerPrompts |-> <<>>, mode |-> "none",
    sfxCount |-> 0, stingerCount |-> 0, tasks |-> <<>>,
    finalChoices |-> <<>>, fallbackInvoked |-> FALSE,
    backgroundMusic |-> Undefined, dominantMood |-> Null, run |-> 0 ]

PreconditionHolds(ctx) ==
  Truthy(ctx.apiKey) /\ Truthy(ctx.elevenLabsApiKey) /\ ctx.theme # Null

\* the actor body up to its first await
StartChapter(ctx, n) ==
  [GenIdle EXCEPT !.kind = "chapter", !.input = ctx, !.run = n,
                  !.charDesc = ctx.characterDescription,
                  !.pc = IF PreconditionHolds(ctx) THEN "director" ELSE "throw"]

StartEnding(ctx, n) ==
  [GenIdle EXCEPT !.kind = "ending", !.input = ctx, !.run = n,
                  !.charDesc = IF Truthy(ctx.characterDescription)
                               THEN ctx.characterDescription ELSE "",
                  !.dominantMood = DominantMood(ctx.ending, ctx.mood),
                  !.pc = IF PreconditionHolds(ctx) THEN "endingText" ELSE "throw"]

NeedsTextOrchestrator_Always(g) == TRUE

\* if (!directorPanels || !referencePage): directorPanels is null until the
\* director call returned, referencePage is undefined until then
NeedsTextOrchestrator(g) == ~g.directorPanels \/ ~g.referencePage

\* if (referencePage && directorPanels): the panels are rendered from the page
RendersFromPage(g) == g.referencePage /\ g.directorPanels

\* the synchronous part of directorPanels.map(async (panel, index) => ...):
\* every callback runs up to its first await before any of them resumes
MapStart(g) ==
  [i \in 1..g.panelCount |->
     [ shouldGenSfx |-> g.sfxCount < maxSfx,
       shouldGenStinger |-> /\ i <= Len(g.stingerPrompts)
                            /\ g.stingerPrompts[i]
                            /\ g.stingerCount < maxStingers,
       pageRefCalled |-> RendersFromPage(g),
       done |-> FALSE, soundEffectAudio |-> FALSE, stingerAudio |-> FALSE ]]

\* the Panel a finished callback returns
PanelOf(g, i) ==
  [ id |-> <<g.run, i>>, narrativeAudio |-> FALSE,
    soundEffectAudio |-> g.tasks[i].soundEffectAudio,
    stingerAudio |-> g.tasks[i].stingerAudio ]

PanelsWithAudio(g) == [i \in 1..Len(g.tasks) |-> PanelOf(g, i)]

AllTasksDone(g) == \A i \in 1..Len(g.tasks) : g.tasks[i].done

(***************************************************************************)
(* assign actions of the invoke handlers                                   *)
(***************************************************************************)
GeneratingOnDone_Prepend(ctx, g) ==
  [ctx EXCEPT
     !.isGenerating = FALSE,
     !.allPanels = PanelsWithAudio(g) \o ctx.allPanels,
     !.choices = g.finalChoices,
     !.characterDescription = IF Truthy(ctx.characterDescription)
                              THEN ctx.characterDescription ELSE g.charDesc,
     !.characterReference = IF Truthy(ctx.characterReference)
                            THEN ctx.characterReference
                            ELSE g.input.characterReference,
     !.backgroundMusic = g.backgroundMusic,
     !.npcs = ctx.npcs \o g.createdOrReusedNpcs,
     !.currentPanelIndex = Len(ctx.allPanels)]

\* generating.invoke.onDone
GeneratingOnDone(ctx, g) ==
  [ctx EXCEPT
     !.isGenerating = FALSE,
     !.allPanels = ctx.allPanels \o PanelsWithAudio(g),
     !.choices = g.finalChoices,
     !.characterDescription = IF Truthy(ctx.characterDescription)
                              THEN ctx.characterDescription ELSE g.charDesc,
     !.characterReference = IF Truthy(ctx.characterReference)
                            THEN ctx.characterReference
                            ELSE g.input.characterReference,
     !.backgroundMusic = g.backgroundMusic,
     !.npcs = ctx.npcs \o g.createdOrReusedNpcs,
     !.currentPanelIndex = Len(ctx.allPanels)]

GeneratingOnError(ctx, message) ==
  [ctx EXCEPT !.isGenerating = FALSE, !.error = message]

EndingOnDone_OffersChoices(ctx, g) ==
  [ctx EXCEPT
     !.isGenerating = FALSE,
     !.allPanels = ctx.allPanels \o PanelsWithAudio(g),
     !.choices = g.input.choices \o <<cAdv, cDan, cRom, cDra>>,
     !.currentPanelIndex = Len(ctx.allPanels)]

\* endingGenerating.invoke.onDone
EndingOnDone(ctx, g) ==
  [ctx EXCEPT
     !.isGenerating = FALSE,
     !.allPanels = ctx.allPanels \o PanelsWithAudio(g),
     !.currentPanelIndex = Len(ctx.allPanels)]

EndingOnError_KeepsFlag(ctx) == ctx

\* endingGenerating.invoke.onError
EndingOnError(ctx) == [ctx EXCEPT !.isGenerating = FALSE]


(***************************************************************************)
(* Backend answers                                                         *)
(***************************************************************************)
\* the structured answers of the director call and of the text orchestrator
AuthoredChapters ==
  { [panels |-> 5, choices |-> <<cAdv, cBig, cTie, cNeg>>,
     newNpcs |-> <<NpcOf("Ava", "d1")>>, characterDescription |-> "heroA"],
    [panels |-> 1, choices |-> <<cAdv, cDan, cRom, cNoDrama>>,
     newNpcs |-> <<NpcOf("Ava", "d1"), NpcOf("Ava", "d2")>>,
     characterDescription |-> "heroB"],
    [panels |-> 1, choices |-> <<cAdv, cDan, cRom>>,
     newNpcs |-> <<>>, characterDescription |-> Undefined] }

\* a backend failure or an empty audio result is counted against MaxFaults
Fault(k) == faults + k <= MaxFaults /\ faults' = faults + k

InvocationActive ==
  /\ state \in {"generating", "endingGenerating"}
  /\ gen.kind = (IF state = "generating" THEN "chapter" ELSE "ending")

Rejects_AppendsDone(g, message) ==
  LET idx == SelectSeq([i \in 1..Len(g.tasks) |-> i], LAMBDA i : g.tasks[i].done)
      ctx == IF g.kind = "chapter" THEN GeneratingOnError(context, message)
             ELSE EndingOnError(context)
  IN /\ gen' = [g EXCEPT !.pc = "rejected"]
     /\ state' = "playing"
     /\ context' = [ctx EXCEPT
                      !.allPanels = @ \o [k \in 1..Len(idx) |-> PanelOf(g, idx[k])]]

\* the invocation's promise rejects: onError of the invoking state
Rejects(g, message) ==
  /\ gen' = [g EXCEPT !.pc = "rejected"]
  /\ state' = "playing"
  /\ context' = IF g.kind = "chapter" THEN GeneratingOnError(context, message)
                ELSE EndingOnError(context)

\* the invocation's promise resolves: onDone of the invoking state
Resolves(g) ==
  /\ gen' = [g EXCEPT !.pc = "resolved"]
  /\ state' = "playing"
  /\ context' = IF g.kind = "chapter" THEN GeneratingOnDone(context, g)
                ELSE EndingOnDone(context, g)

Continues(g) == gen' = g /\ UNCHANGED <<state, context>>

(***************************************************************************)
(* generateChapter and generateEnding, one action per await                *)
(***************************************************************************)
\* if (!apiKey || !elevenLabsApiKey || !theme) throw ...
PreconditionThrows ==
  /\ InvocationActive /\ gen.pc = "throw"
  /\ Fault(0)
  /\ Rejects(gen, "API keys and theme are required")
  /\ UNCHANGED <<saved, invocations, schedVars, retryVars, revoked,
               abandoned>>

\* after the try/catch around the director call
AfterDirector(g) ==
  [g EXCEPT !.pc = IF NeedsTextOrchestrator(g) THEN "text" ELSE "npcs"]

\* await generateDirectorPageAndJSON(...) inside try/catch; the call throws
\* when the backend fails, returns no page image or returns unparsable JSON
AwaitDirector ==
  /\ InvocationActive /\ gen.pc = "director"
  /\ \/ /\ Fault(1)
        /\ Continues(AfterDirector(gen))
     \/ \E d \in AuthoredChapters :
          /\ Fault(0)
          /\ Continues(AfterDirector([gen EXCEPT
               !.referencePage = TRUE,
               !.charDesc = AcceptDescription(gen.charDesc, d.characterDescription),
               !.directorPanels = TRUE,
               !.panelCount = d.panels,
               !.directorChoices = d.choices,
               !.directorNewNpcs = d.newNpcs]))
  /\ UNCHANGED <<saved, invocations, schedVars, retryVars, revoked,
               abandoned>>

\* await generateStoryChapter(...), reached when the director flow failed
AwaitStoryChapter ==
  /\ InvocationActive /\ gen.pc = "text"
  /\ \/ /\ Fault(1)
        /\ Rejects(gen, "backend error")
     \/ \E d \in AuthoredChapters :
          /\ Fault(0)
          /\ Continues([gen EXCEPT
               !.storyData = TRUE,
               !.directorPanels = TRUE,
               !.panelCount = d.panels,
               !.directorChoices = d.choices,
               !.directorNewNpcs = d.newNpcs,
               !.pc = "npcs"])
  /\ UNCHANGED <<saved, invocations, schedVars, retryVars, revoked,
               abandoned>>

\* await Promise.all(directorNewNpcs.map(...)): reuse or portrait call
ResolveNpcs ==
  /\ InvocationActive /\ gen.pc = "npcs"
  /\ LET new == gen.directorNewNpcs
         roster == gen.input.npcs
         calls == {i \in 1..Len(new) : NpcFind(roster, new[i]) = 0}
         made == [i \in 1..Len(new) |->
                    IF NpcFind(roster, new[i]) = 0
                    THEN [name |-> new[i].name, description |-> new[i].description,
                          referenceImage |-> <<gen.run, i>>]
                    ELSE roster[NpcFind(roster, new[i])]]
     IN \/ /\ Fault(0)
           /\ Continues([gen EXCEPT !.createdOrReusedNpcs = made,
                                    !.portraitCalls = calls, !.pc = "briefs"])
        \/ /\ calls # {}
           /\ Fault(1)
           /\ Rejects([gen EXCEPT !.portraitCalls = calls], "backend error")
  /\ UNCHANGED <<saved, invocations, schedVars, retryVars, revoked,
               abandoned>>

\* await generateAudioBriefs(...); afterwards the page-reference path maps
\* the panels at once, the other paths first await the image batch
AwaitAudioBriefs ==
  /\ InvocationActive /\ gen.pc = "briefs"
  /\ \/ /\ Fault(1)
        /\ Rejects(gen, "backend error")
     \/ \E sp \in StingerPromptSets :
          LET g1 == [gen EXCEPT !.stingerPrompts = sp]
          IN /\ Fault(0)
             /\ Continues(IF g1.kind = "chapter" /\ RendersFromPage(g1)
                          THEN [g1 EXCEPT !.mode = "pageRef",
                                          !.tasks = MapStart(g1), !.pc = "panels"]
                          ELSE [g1 EXCEPT !.mode = "batch", !.pc = "batch"])
  /\ UNCHANGED <<saved, invocations, schedVars, retryVars, revoked,
               abandoned>>

\* await generateEndingChapter(...)
AwaitEndingChapter ==
  /\ InvocationActive /\ gen.pc = "endingText"
  /\ \/ /\ Fault(1)
        /\ Rejects(gen, "backend error")
     \/ \E n \in EndingPanelCounts :
          /\ Fault(0)
          /\ Continues([gen EXCEPT !.panelCount = n, !.mode = "batch",
                                   !.pc = "briefs"])
  /\ UNCHANGED <<saved, invocations, schedVars, retryVars, revoked,
               abandoned>>

\* await generateChapterImagesBatch(...): the chapter catches a failure and
\* maps the panels with per-panel image calls, the ending does not catch it.
\* The failure the chapter catches is not counted against MaxFaults: it
\* follows a director failure, which has used the budget
AwaitImagesBatch ==
  /\ InvocationActive /\ gen.pc = "batch"
  /\ \/ /\ Fault(0)
        /\ Continues([gen EXCEPT !.tasks = MapStart(gen), !.pc = "panels"])
     \/ /\ gen.kind = "chapter"
        /\ Fault(0)
        /\ Continues([gen EXCEPT !.mode = "perPanel",
                                 !.tasks = MapStart(gen), !.pc = "panels"])
     \/ /\ gen.kind = "ending"
        /\ Fault(1)
        /\ Rejects(gen, "backend error")
  /\ UNCHANGED <<saved, invocations, schedVars, retryVars, revoked,
               abandoned>>

\* one map callback resumes after its await Promise.all([image, sfx, stinger])
PanelTaskCompletes(i) ==
  /\ InvocationActive /\ gen.pc = "panels"
  /\ i \in 1..Len(gen.tasks)
  /\ ~gen.tasks[i].done
  /\ \E image \in BOOLEAN, soundEffectAudio \in BOOLEAN, stingerAudio \in BOOLEAN :
       LET t == gen.tasks[i]
           cost == (IF image THEN 0 ELSE 1)
                   + (IF t.shouldGenSfx /\ ~soundEffectAudio THEN 1 ELSE 0)
                   + (IF t.shouldGenStinger /\ ~stingerAudio THEN 1 ELSE 0)
       IN /\ image \/ gen.mode \in {"pageRef", "perPanel"}
          /\ soundEffectAudio => t.shouldGenSfx
          /\ stingerAudio => t.shouldGenStinger
          /\ Fault(cost)
          /\ IF ~image
             THEN Rejects(gen, "backend error")
             ELSE Continues([gen EXCEPT
                    !.sfxCount = IF t.shouldGenSfx /\ soundEffectAudio
                                 THEN @ + 1 ELSE @,
                    !.stingerCount = IF t.shouldGenStinger /\ stingerAudio
                                     THEN @ + 1 ELSE @,
                    !.tasks[i] = [t EXCEPT !.done = TRUE,
                                           !.soundEffectAudio = soundEffectAudio,
                                           !.stingerAudio = stingerAudio]])
  /\ UNCHANGED <<saved, invocations, schedVars, retryVars, revoked,
               abandoned>>

\* await backgroundMusicPromise, then the validation of the authored choices
AwaitMusicAndValidate ==
  /\ InvocationActive /\ gen.pc = "panels" /\ gen.kind = "chapter"
  /\ AllTasksDone(gen)
  /\ \E m \in {"music", "ambience", ""} :
       LET g1 == [gen EXCEPT !.backgroundMusic = m]
       IN /\ Fault(IF m = "music" THEN 0 ELSE IF m = "ambience" THEN 1 ELSE 2)
          /\ IF ChoicesAccepted(gen.directorChoices)
             THEN Resolves([g1 EXCEPT !.finalChoices = gen.directorChoices])
             ELSE Continues([g1 EXCEPT !.fallbackInvoked = TRUE, !.pc = "fallback"])
  /\ UNCHANGED <<saved, invocations, schedVars, retryVars, revoked,
               abandoned>>

\* await generateChoicesFallback(...) inside try/catch, then return
AwaitChoicesFallback ==
  /\ InvocationActive /\ gen.pc = "fallback"
  /\ \/ \E fc \in FallbackChoiceSets :
          /\ Fault(0)
          /\ Resolves([gen EXCEPT !.finalChoices = fc])
     \/ /\ Fault(1)
        /\ Resolves([gen EXCEPT !.finalChoices = <<>>])
  /\ UNCHANGED <<saved, invocations, schedVars, retryVars, revoked,
               abandoned>>

\* generateEnding returns { newPanels: panelsWithAudio }
EndingReturns ==
  /\ InvocationActive /\ gen.pc = "panels" /\ gen.kind = "ending"
  /\ AllTasksDone(gen)
  /\ Fault(0)
  /\ Resolves(gen)
  /\ UNCHANGED <<saved, invocations, schedVars, retryVars, revoked,
               abandoned>>


(***************************************************************************)
(* Events of the story machine                                             *)
(***************************************************************************)
Themes == {"fantasy"}
\* the credential pairs a START event carries
Credentials == { <<"gemini-key", "eleven-key">>, <<"gemini-key", "">> }

\* idle.on.START
Start(theme, apiKey, elevenLabsApiKey) ==
  /\ state = "idle"
  /\ invocations < MaxInvocations
  /\ invocations' = invocations + 1
  /\ state' = "generating"
  /\ context' = [initialContext EXCEPT !.theme = theme, !.apiKey = apiKey,
                                       !.elevenLabsApiKey = elevenLabsApiKey,
                                       !.isGenerating = TRUE]
  /\ gen' = StartChapter(context', invocations')
  /\ UNCHANGED <<saved, faults, schedVars, retryVars, revoked,
               abandoned>>

\* playing.on.MAKE_CHOICE: the guarded transition, else the default one
MakeChoice(choice) ==
  /\ state = "playing"
  /\ invocations < MaxInvocations
  /\ invocations' = invocations + 1
  /\ IF EndingGuard(context.mood, choice.impact)
     THEN /\ state' = "endingGenerating"
          /\ context' = [context EXCEPT
                           !.mood = MoodAfter(context.mood, choice.impact),
                           !.ending = MaxMood(MoodAfter(context.mood, choice.impact)),
                           !.lastChoiceText = choice.text,
                           !.isGenerating = TRUE,
                           !.choices = <<>>]
          /\ gen' = StartEnding(context', invocations')
     ELSE /\ state' = "generating"
          /\ context' = [context EXCEPT
                           !.isGenerating = TRUE,
                           !.mood = MoodAfter(context.mood, choice.impact),
                           !.choices = <<>>,
                           !.lastChoiceText = choice.text]
          /\ gen' = StartChapter(context', invocations')
  /\ UNCHANGED <<saved, faults, schedVars, retryVars, revoked,
               abandoned>>

ActiveStates == {"generating", "playing", "endingGenerating", "viewingPrevious"}

\* context.allPanels.forEach(panel => { if (panel.narrativeAudio) revoke;
\* if (panel.soundEffectAudio) revoke }): handles are <<panel index, property>>
RevokedPanelHandles(ctx) ==
  {h \in (1..Len(ctx.allPanels)) \X {"narrativeAudio", "soundEffectAudio"} :
     ctx.allPanels[h[1]][h[2]]}

\* the forEach, then if (context.backgroundMusic) revoke
RevokedOnDiscard(ctx) ==
  RevokedPanelHandles(ctx)
    \cup (IF Truthy(ctx.backgroundMusic) THEN {<<0, "backgroundMusic">>} ELSE {})

\* on.VIEW_PREV of the four active states
ViewPrev ==
  /\ state \in ActiveStates
  /\ context' = [context EXCEPT
                   !.currentPanelIndex = Max(0, context.currentPanelIndex - 1)]
  /\ UNCHANGED <<state, gen, saved, invocations, faults, schedVars, retryVars, revoked,
               abandoned>>

\* on.VIEW_NEXT: generating and endingGenerating clamp at 0 as well
ViewNext ==
  /\ state \in ActiveStates
  /\ context' = [context EXCEPT
                   !.currentPanelIndex =
                      IF state \in {"generating", "endingGenerating"}
                      THEN Max(0, Min(Len(context.allPanels) - 1,
                                      context.currentPanelIndex + 1))
                      ELSE Min(Len(context.allPanels) - 1,
                               context.currentPanelIndex + 1)]
  /\ UNCHANGED <<state, gen, saved, invocations, faults, schedVars, retryVars, revoked,
               abandoned>>

ToggleMute_Reenters ==
  /\ state \in ActiveStates
  /\ context' = [context EXCEPT !.isMuted = ~context.isMuted]
  /\ gen' = IF state = "generating" THEN StartChapter(context', gen.run)
            ELSE IF state = "endingGenerating" THEN StartEnding(context', gen.run)
            ELSE gen
  /\ UNCHANGED <<state, saved, invocations, faults, schedVars, retryVars, revoked,
               abandoned>>

\* on.TOGGLE_MUTE
ToggleMute ==
  /\ state \in ActiveStates
  /\ context' = [context EXCEPT !.isMuted = ~context.isMuted]
  /\ UNCHANGED <<state, gen, saved, invocations, faults, schedVars, retryVars, revoked,
               abandoned>>

\* on.EXIT_TO_MENU: back to idle with initialContext; the invoked actor stops
ExitToMenu ==
  /\ state \in ActiveStates
  /\ state' = "idle"
  /\ revoked' = RevokedOnDiscard(context)
  /\ context' = initialContext
  /\ gen' = GenIdle
  /\ abandoned' = IF state \in {"generating", "endingGenerating"}
                  THEN abandoned \cup {[run |-> gen.run, outcome |-> "pending",
                                        settledIn |-> "none"]}
                  ELSE abandoned
  /\ UNCHANGED <<saved, invocations, faults, schedVars, retryVars>>

StoppedActorSettles_Delivered(ok) ==
  IF state = "generating"
  THEN /\ state' = "playing"
       /\ gen' = [gen EXCEPT !.pc = IF ok THEN "resolved" ELSE "rejected"]
       /\ context' = IF ok THEN GeneratingOnDone(context, gen)
                     ELSE GeneratingOnError(context, "backend error")
  ELSE UNCHANGED <<state, context, gen>>

\* the promise of an actor that was stopped when its state was left settles:
\* nothing is delivered to the machine
StoppedActorSettles(ok) == UNCHANGED <<state, context, gen>>

\* the pipeline of an abandoned invocation runs to its end
AbandonedSettles ==
  \E a \in abandoned, ok \in BOOLEAN :
    /\ a.outcome = "pending"
    /\ abandoned' = (abandoned \ {a})
                      \cup {[a EXCEPT !.outcome = IF ok THEN "resolved" ELSE "rejected",
                                      !.settledIn = state]}
    /\ StoppedActorSettles(ok)
    /\ UNCHANGED <<saved, invocations, faults, revoked, schedVars, retryVars>>

Restart_KeepsSnapshot ==
  /\ state = "storyEnded"
  /\ state' = "idle"
  /\ revoked' = RevokedOnDiscard(context)
  /\ context' = initialContext
  /\ UNCHANGED <<saved, gen, invocations, faults, schedVars, retryVars,
                 abandoned>>

\* storyEnded.on.RESTART: clearState(), then initialContext
Restart ==
  /\ state = "storyEnded"
  /\ state' = "idle"
  /\ saved' = Null
  /\ revoked' = RevokedOnDiscard(context)
  /\ context' = initialContext
  /\ UNCHANGED <<gen, invocations, faults, schedVars, retryVars, abandoned>>

(***************************************************************************)
(* Loading a stored story: CONTINUE and VIEW_PREVIOUS                      *)
(***************************************************************************)
\* the mood vectors of stored records: the current format, and the format
\* that predates the drama axis
StoredMoods ==
  { MoodOf(10, 5, 6, 8), [adventure |-> 10, danger |-> 5, romance |-> 6] }

StoredKeys ==
  { <<"gemini-key", "eleven-key">>, <<"gemini-key", Undefined>>,
    <<Undefined, "eleven-key">> }

StoredPanels ==
  { <<>>,
    <<[id |-> <<1, 1>>, narrativeAudio |-> TRUE, soundEffectAudio |-> TRUE,
       stingerAudio |-> TRUE],
      [id |-> <<1, 2>>, narrativeAudio |-> TRUE, soundEffectAudio |-> FALSE,
       stingerAudio |-> FALSE]>> }

\* an object without the property f
Omit(c, f) == [k \in DOMAIN c \ {f} |-> c[k]]

\* the contexts of stored records; older records have no npcs property
StoredContexts ==
  LET full == { [initialContext EXCEPT
                   !.mood = m, !.theme = "fantasy",
                   !.apiKey = ks[1], !.elevenLabsApiKey = ks[2],
                   !.allPanels = ps,
                   !.currentPanelIndex = IF Len(ps) = 0 THEN 0 ELSE Len(ps) - 1,
                   !.isGenerating = g,
                   !.error = IF g THEN "backend error" ELSE Null,
                   !.characterDescription = "heroA",
                   !.npcs = <<[name |-> "Ava", description |-> "d1",
                               referenceImage |-> <<1, 1>>]>>]
                : m \in StoredMoods, ks \in StoredKeys, ps \in StoredPanels,
                  g \in BOOLEAN }
  IN full \cup {Omit(c, "npcs") : c \in full}

\* what a load actor resolves with: null, or a record { value, context }
LoadOutputs ==
  {[found |-> FALSE, context |-> initialContext]}
    \cup {[found |-> TRUE, context |-> c] : c \in StoredContexts}

\* allPanels.map(p => ({ ...p, narrativeAudio: undefined, soundEffectAudio: undefined }))
StrippedPanels(ps) ==
  [i \in 1..Len(ps) |->
     [ps[i] EXCEPT !.narrativeAudio = FALSE, !.soundEffectAudio = FALSE]]

\* loadedContext.npcs || []
NpcsOrEmpty(c) == IF "npcs" \in DOMAIN c THEN c.npcs ELSE <<>>

\* mood.axis ?? 0.25
AxisOrQuarter(m, a) == IF a \in DOMAIN m THEN m[a] ELSE Quarter

\* the object c with property f set to v
WithProperty(c, f, v) == [k \in DOMAIN c \cup {f} |-> IF k = f THEN v ELSE c[k]]

\* the assign of loadingSavedStory.onDone
LoadedSavedContext(c) ==
  WithProperty([c EXCEPT !.allPanels = StrippedPanels(c.allPanels),
                         !.mood = [a \in Axes |-> AxisOrQuarter(c.mood, a)]],
               "npcs", NpcsOrEmpty(c))

\* the assign of loadingCompletedStory.onDone
LoadedCompletedContext(c) ==
  WithProperty([c EXCEPT !.allPanels = StrippedPanels(c.allPanels),
                         !.isGenerating = FALSE,
                         !.error = Null],
               "npcs", NpcsOrEmpty(c))

\* idle.on.CONTINUE
Continue ==
  /\ state = "idle"
  /\ state' = "loadingSavedStory"
  /\ UNCHANGED <<context, gen, saved, invocations, faults, schedVars, retryVars, revoked,
               abandoned>>

\* idle.on.VIEW_PREVIOUS
ViewPrevious ==
  /\ state = "idle"
  /\ state' = "loadingCompletedStory"
  /\ UNCHANGED <<context, gen, saved, invocations, faults, schedVars, retryVars, revoked,
               abandoned>>

SavedStoryGuard_ApiKeyOnly(out) ==
  /\ out.found
  /\ Truthy(out.context.apiKey)

\* the guard of the first onDone transition of loadingSavedStory:
\* !!(savedState && savedState.context && apiKey && elevenLabsApiKey)
SavedStoryGuard(out) ==
  /\ out.found
  /\ Truthy(out.context.apiKey)
  /\ Truthy(out.context.elevenLabsApiKey)

\* loadingSavedStory.onDone: loadState resolved with out, the 'currentState'
\* record; gen.input keeps the context the actor resolved with
LoadingSavedStoryOnDone(out) ==
  /\ state = "loadingSavedStory"
  /\ out.found = (saved # Null)
  /\ gen' = [GenIdle EXCEPT !.kind = "loadState", !.pc = "done",
                            !.input = out.context]
  /\ IF SavedStoryGuard(out)
     THEN /\ state' = "playing"
          /\ revoked' = RevokedPanelHandles(out.context)
          /\ context' = LoadedSavedContext(out.context)
     ELSE /\ state' = "idle"
          /\ context' = [initialContext EXCEPT !.error = "missing API keys"]
          /\ UNCHANGED revoked
  /\ UNCHANGED <<saved, invocations, faults, schedVars, retryVars, abandoned>>

\* loadingSavedStory.onError
LoadingSavedStoryOnError ==
  /\ state = "loadingSavedStory"
  /\ state' = "idle"
  /\ context' = [context EXCEPT !.error = "failed to load saved story"]
  /\ UNCHANGED <<gen, saved, invocations, faults, schedVars, retryVars, revoked,
               abandoned>>

\* loadingCompletedStory.onDone: loadCompleted resolved with out
LoadingCompletedStoryOnDone(out) ==
  /\ state = "loadingCompletedStory"
  /\ gen' = [GenIdle EXCEPT !.kind = "loadCompleted", !.pc = "done",
                            !.input = out.context]
  /\ IF out.found
     THEN /\ state' = "viewingPrevious"
          /\ context' = LoadedCompletedContext(out.context)
     ELSE /\ state' = "idle"
          /\ context' = [initialContext EXCEPT
                           !.error = "no completed story found"]
  /\ UNCHANGED <<saved, invocations, faults, schedVars, retryVars, revoked,
               abandoned>>

\* loadingCompletedStory.onError
LoadingCompletedStoryOnError ==
  /\ state = "loadingCompletedStory"
  /\ state' = "idle"
  /\ context' = [context EXCEPT !.error = "failed to load completed story"]
  /\ UNCHANGED <<gen, saved, invocations, faults, schedVars, retryVars, revoked,
               abandoned>>

(***************************************************************************)
(* Specifications                                                          *)
(***************************************************************************)
StoryInit ==
  /\ state = "idle"
  /\ context = initialContext
  /\ gen = GenIdle
  /\ saved = Null
  /\ invocations = 0
  /\ faults = 0
  /\ revoked = {}
  /\ abandoned = {}

Init == SchedInit /\ StoryInit

\* the generation cycle: the events that start or stop a pipeline invocation,
\* and the steps of the invocation
GenerationNext ==
  \/ \E th \in Themes, cr \in Credentials : Start(th, cr[1], cr[2])
  \/ \E i \in 1..Len(context.choices) : MakeChoice(context.choices[i])
  \/ ExitToMenu
  \/ PreconditionThrows
  \/ AwaitDirector
  \/ AwaitStoryChapter
  \/ ResolveNpcs
  \/ AwaitAudioBriefs
  \/ AwaitEndingChapter
  \/ AwaitImagesBatch
  \/ \E i \in 1..Len(gen.tasks) : PanelTaskCompletes(i)
  \/ AwaitMusicAndValidate
  \/ AwaitChoicesFallback
  \/ EndingReturns
  \/ AbandonedSettles

Next ==
  \/ GenerationNext
  \/ ViewPrev
  \/ ViewNext
  \/ ToggleMute

\* the story machine with its pipelines
Spec == Init /\ [][Next]_vars

\* the generation cycle alone: VIEW_PREV, VIEW_NEXT and TOGGLE_MUTE, which
\* change currentPanelIndex and isMuted only, are left out
SpecGeneration == Init /\ [][GenerationNext]_vars

SchedNext ==
  \/ WarmUp
  \/ ScheduleImageTask
  \/ \E id \in TaskIds, ok \in BOOLEAN : TaskSettles(id, ok)
  \/ TimerFires
  \/ Tick
  \/ TickToTimer

\* the request scheduler under arbitrary arrivals, completions and timers
SpecSched == Init /\ [][SchedNext]_vars

\* the store as an earlier session left it
LoadInit ==
  /\ SchedInit
  /\ state = "idle"
  /\ context = initialContext
  /\ gen = GenIdle
  /\ saved \in {Null, "snapshot"}
  /\ invocations = 0
  /\ faults = 0
  /\ revoked = {}
  /\ abandoned = {}

LoadNext ==
  \/ Continue
  \/ ViewPrevious
  \/ \E out \in LoadOutputs : LoadingSavedStoryOnDone(out)
  \/ LoadingSavedStoryOnError
  \/ \E out \in LoadOutputs : LoadingCompletedStoryOnDone(out)
  \/ LoadingCompletedStoryOnError
  \/ ViewPrev
  \/ ViewNext
  \/ ToggleMute
  \/ ExitToMenu

\* the machine from the menu through the two load flows
SpecLoad == LoadInit /\ [][LoadNext]_vars

FairSchedNext ==
  \/ WarmUp
  \/ ScheduleImageTask
  \/ \E id \in TaskIds, ok \in BOOLEAN : TaskSettles(id, ok)
  \/ TimerFires
  \/ Tick
  \/ TimerComesDue

\* the scheduler where every started task eventually settles, every timer
\* callback that is due eventually runs and the clock eventually reaches the
\* deadline of an armed timer
SpecSchedFair ==
  /\ Init /\ [][FairSchedNext]_vars
  /\ WF_vars(\E id \in TaskIds, ok \in BOOLEAN : TaskSettles(id, ok))
  /\ WF_vars(TimerFires)
  /\ WF_vars(TimerComesDue)

\* the errors the backend answers with in the runs explored
BackendErrors == {"status429", "server"}

\* scheduleImageTask(() => retryWithBackoff(runRequest))
\* (the image requests of a page are issued in the same instant)
ScheduleRetryingTask ==
  /\ now = 0
  /\ nextTask <= (IF nextTask <= WarmTasks THEN MaxRetryTasks
                  ELSE WarmTasks + MaxRetryTasks)
  /\ ScheduleImageTask

RetryNext ==
  \/ RetryWarmUp
  \/ ScheduleRetryingTask
  \/ \E id \in TaskIds : AttemptSucceeds(id)
  \/ \E id \in TaskIds, e \in BackendErrors, j \in Jitters : AttemptFails(id, e, j)
  \/ \E id \in TaskIds : BackoffEnds(id)
  \/ TimerFires
  \/ TickToBackoff

\* the request scheduler with the run function generatePanelImage gives it
SpecRetry == Init /\ [][RetryNext]_vars

\* the same, where every awaited request is eventually answered, every timer
\* callback that is due eventually runs, and the clock eventually reaches a
\* pending backoff deadline
SpecRetryFair ==
  /\ Init /\ [][RetryNext]_vars
  /\ WF_vars(\E id \in TaskIds :
               \/ AttemptSucceeds(id)
               \/ \E e \in BackendErrors, j \in Jitters : AttemptFails(id, e, j))
  /\ WF_vars(\E id \in TaskIds : BackoffEnds(id))
  /\ WF_vars(TimerFires)
  /\ WF_vars(TickToBackoff)

\* the contexts a story can end with: the RESTART transition is taken from
\* each of them
EndedPanels ==
  { <<>>,
    <<[id |-> <<1, 1>>, narrativeAudio |-> FALSE, soundEffectAudio |-> TRUE,
       stingerAudio |-> FALSE]>>,
    <<[id |-> <<1, 1>>, narrativeAudio |-> FALSE, soundEffectAudio |-> TRUE,
       stingerAudio |-> TRUE],
      [id |-> <<2, 1>>, narrativeAudio |-> FALSE, soundEffectAudio |-> FALSE,
       stingerAudio |-> FALSE]>> }

EndedContexts ==
  { [initialContext EXCEPT
       !.mood = [MoodOf(Quarter, Quarter, Quarter, Quarter) EXCEPT ![e] = One],
       !.theme = "fantasy", !.apiKey = "gemini-key",
       !.elevenLabsApiKey = "eleven-key",
       !.ending = e, !.allPanels = ps,
       !.currentPanelIndex = IF Len(ps) = 0 THEN 0 ELSE Len(ps) - 1,
       !.isMuted = mu, !.error = er, !.lastChoiceText = "big",
       !.characterDescription = "heroA", !.backgroundMusic = bm,
       !.npcs = ns]
    : e \in Axes, ps \in EndedPanels, mu \in BOOLEAN,
      er \in {Null, "backend error"}, bm \in {Undefined, "music"},
      ns \in { <<>>, <<[name |-> "Ava", description |-> "d1",
                        referenceImage |-> <<1, 1>>]>> } }

EndedInit ==
  /\ SchedInit
  /\ state = "storyEnded"
  /\ context \in EndedContexts
  /\ saved \in {Null, "snapshot"}
  /\ gen = GenIdle
  /\ invocations \in 1..MaxInvocations
  /\ faults = 0
  /\ revoked = {}
  /\ abandoned = {}

\* the machine in storyEnded, for every ended context
SpecEnded == EndedInit /\ [][Restart]_vars

(***************************************************************************)
(* C1: the number of tasks started and not yet settled never exceeds       *)
(* IMAGE_CONCURRENCY_LIMIT = 3.                                            *)
(***************************************************************************)
C1_ConcurrencyBound ==
  /\ Cardinality(running) <= IMAGE_CONCURRENCY_LIMIT
  /\ imageInFlight = Cardinality(running)

\* the pool is full while a further task waits in the queue
C1_Witness ==
  /\ Cardinality(running) = IMAGE_CONCURRENCY_LIMIT
  /\ Len(imageQueue) > 0

(***************************************************************************)
(* C2: for every instant t, at most IMAGE_RPM_LIMIT = 10 tasks were        *)
(* started in the trailing window (t - 60s, t]; a start is made only when, *)
(* after pruning, fewer than 10 starts remain in the window.               *)
(***************************************************************************)
StartsInWindow(t) ==
  Cardinality({i \in 1..Len(startLog) :
                 startLog[i].at <= t /\ t - startLog[i].at < ONE_MINUTE_MS})

C2_RateWindow ==
  /\ \A i \in 1..Len(startLog) :
       StartsInWindow(startLog[i].at) <= IMAGE_RPM_LIMIT
  /\ StartsInWindow(now) <= IMAGE_RPM_LIMIT
  /\ \A i \in 1..Len(imageStartTimestamps) :
       \E j \in 1..Len(startLog) : startLog[j].at = imageStartTimestamps[i]

\* an eleventh task was started, after the window had freed, while the
\* first ten starts fill a window of their own
C2_Witness ==
  /\ Len(startLog) > IMAGE_RPM_LIMIT
  /\ \E i \in 1..Len(startLog) :
       StartsInWindow(startLog[i].at) = IMAGE_RPM_LIMIT

(***************************************************************************)
(* C14: tasks are started in exactly the order in which scheduleImageTask  *)
(* was called: the k-th start is the k-th scheduled task, and the queue    *)
(* holds the tasks scheduled after every started one, in call order.       *)
(***************************************************************************)
C14_FifoAdmission ==
  /\ \A k \in 1..Len(startLog) : startLog[k].id = k
  /\ \A k \in 1..Len(imageQueue) : imageQueue[k] = Len(startLog) + k
  /\ nextTask = Len(startLog) + Len(imageQueue) + 1

\* two tasks waited in the queue together and were started later on
C14_Witness ==
  /\ Len(imageQueue) >= 1
  /\ \E k \in 2..Len(startLog) :
       /\ startLog[k].at > 0
       /\ startLog[k - 1].at = 0
       /\ startLog[k].id \notin running
       /\ startLog[k - 1].id \in running

(***************************************************************************)
(* C3: the panels returned by one Chapter Pipeline invocation carry at     *)
(* most maxSfx = 4 sound effects in total.                                 *)
(***************************************************************************)
SfxReturned(g) ==
  Cardinality({i \in 1..Len(g.tasks) : g.tasks[i].soundEffectAudio})

C3_SfxCap ==
  (gen.kind = "chapter" /\ gen.pc = "resolved") => SfxReturned(gen) <= maxSfx

(***************************************************************************)
(* C4: the panels returned by one invocation of the Chapter Pipeline or of *)
(* the Ending Pipeline carry at most maxStingers = 2 stingers in total.    *)
(***************************************************************************)
StingersReturned(g) ==
  Cardinality({i \in 1..Len(g.tasks) : g.tasks[i].stingerAudio})

C4_StingerCap ==
  gen.pc = "resolved" => StingersReturned(gen) <= maxStingers

(***************************************************************************)
(* C5: in every reachable state all four mood axes lie in [0.0, 1.0].      *)
(***************************************************************************)
C5_MoodClamped ==
  \A a \in Axes : 0 <= context.mood[a] /\ context.mood[a] <= One

(***************************************************************************)
(* C6: on MAKE_CHOICE in playing, if some axis plus its impact is >= 1.0   *)
(* the next state is endingGenerating and an ending marker is recorded;    *)
(* if none is, the next state is generating and an unset marker stays      *)
(* unset.  Mood 0.25 everywhere with impact adventure 0.8 gives adventure  *)
(* 1.0, endingGenerating and ending = adventure.                           *)
(***************************************************************************)
MadeChoiceStep ==
  state = "playing" /\ state' \in {"generating", "endingGenerating"}

C6_Trigger ==
  LET choice == ChoiceByText(context'.lastChoiceText)
      reaches(a) == FGe(FAdd(context.mood[a], choice.impact[a]), One)
  IN MadeChoiceStep =>
       /\ (\E a \in Axes : reaches(a)) =>
             state' = "endingGenerating" /\ context'.ending \in Axes
       /\ (\A a \in Axes : ~reaches(a)) =>
             /\ state' = "generating"
             /\ context.ending = Null => context'.ending = Null
       /\ (context.mood = initialContext.mood /\ choice = cBig) =>
             /\ context'.mood.adventure = One
             /\ state' = "endingGenerating"
             /\ context'.ending = "adventure"

C6_EndingTrigger == [][C6_Trigger]_vars

\* the example of the claim has happened
C6_Witness ==
  /\ state = "endingGenerating"
  /\ context.lastChoiceText = "big"
  /\ context.mood = MoodOf(One, Quarter, Quarter, Quarter)
  /\ context.ending = "adventure"

(***************************************************************************)
(* C7: when the ending is triggered, the recorded marker is an axis whose  *)
(* updated value is maximal, the first such axis in the order adventure,   *)
(* danger, romance, drama.                                                 *)
(***************************************************************************)
FirstMaximalAxis(m, e) ==
  LET pos == CHOOSE k \in 1..Len(MoodKeys) : MoodKeys[k] = e
  IN /\ \A a \in Axes : m[a] <= m[e]
     /\ \A k \in 1..(pos - 1) : m[MoodKeys[k]] < m[e]

C7_EndingAxis ==
  (state = "endingGenerating" /\ context.ending \in Axes)
     => FirstMaximalAxis(context.mood, context.ending)

(***************************************************************************)
(* C8: the fallback choice call is made if and only if the authored choice *)
(* set does not have exactly 4 entries or some entry lacks a text label or *)
(* a numeric impact on one of the four axes.                               *)
(***************************************************************************)
WellShapedChoice(c) ==
  /\ c.text # Undefined
  /\ c.hasImpact
  /\ \A a \in Axes : c.impact[a] # NaN

C8_FallbackIff ==
  (gen.kind = "chapter" /\ gen.pc \in {"fallback", "resolved"}) =>
     (gen.fallbackInvoked <=>
        ~(/\ Len(gen.directorChoices) = 4
          /\ \A i \in 1..Len(gen.directorChoices) :
               WellShapedChoice(gen.directorChoices[i])))

(***************************************************************************)
(* C9: for a newly introduced character whose exact (name, description)    *)
(* pair is in the roster no portrait call is issued and the roster entry,  *)
(* with its cached portrait, is the one used; a portrait call is issued    *)
(* for the pairs that are not in the roster, and only for them.            *)
(***************************************************************************)
InRoster(roster, npc) ==
  \E k \in 1..Len(roster) :
     roster[k].name = npc.name /\ roster[k].description = npc.description

C9_NpcReuse ==
  (gen.kind = "chapter" /\ gen.pc \in {"briefs", "batch", "panels", "fallback", "resolved"})
  => \A i \in 1..Len(gen.directorNewNpcs) :
       LET npc == gen.directorNewNpcs[i]
           used == gen.createdOrReusedNpcs[i]
       IN IF InRoster(gen.input.npcs, npc)
          THEN /\ i \notin gen.portraitCalls
               /\ \E k \in 1..Len(gen.input.npcs) : used = gen.input.npcs[k]
               /\ used.name = npc.name /\ used.description = npc.description
          ELSE i \in gen.portraitCalls

\* a chapter introduced one character of the roster and one that is new
C9_Witness ==
  /\ gen.kind = "chapter" /\ gen.pc = "briefs"
  /\ \E i, j \in 1..Len(gen.directorNewNpcs) :
       /\ InRoster(gen.input.npcs, gen.directorNewNpcs[i])
       /\ i \notin gen.portraitCalls
       /\ j \in gen.portraitCalls

(***************************************************************************)
(* C10: RESTART leaves the persisted snapshot cleared and StoryState equal *)
(* to the initial values: mood 0.25 on every axis, no panels, choices or   *)
(* NPCs, index 0, no ending marker, no error, not generating.              *)
(***************************************************************************)
C10_Restarted ==
  (state = "storyEnded" /\ state' # "storyEnded") =>
     /\ state' = "idle"
     /\ saved' = Null
     /\ \A a \in Axes : context'.mood[a] = Quarter
     /\ context'.allPanels = <<>>
     /\ context'.choices = <<>>
     /\ context'.npcs = <<>>
     /\ context'.currentPanelIndex = 0
     /\ context'.ending = Null
     /\ context'.error = Null
     /\ ~context'.isGenerating
     /\ context' = initialContext

C10_RestartResets == [][C10_Restarted]_vars

\* a story with panels, a marker and a persisted snapshot was restarted
C10_Witness ==
  /\ state = "idle"
  /\ invocations > 0
  /\ saved = Null
  /\ context = initialContext


(***************************************************************************)
(* C17: a chapter invocation rejects only if a credential or the theme is  *)
(* absent; with both credentials and a theme it yields a chapter whatever  *)
(* backend calls fail.                                                     *)
(***************************************************************************)
C17_FailsOnlyOnPrecondition ==
  (gen.kind = "chapter" /\ gen.pc = "rejected") => ~PreconditionHolds(gen.input)

(***************************************************************************)
(* C18: the choice list a chapter invocation returns, and so the choices   *)
(* offered after the chapter completes, is either empty or exactly 4       *)
(* choices with a text label and a numeric impact on all four axes.        *)
(***************************************************************************)
C18_ChoicesFourOrEmpty ==
  (gen.kind = "chapter" /\ gen.pc = "resolved") =>
     /\ context.choices = gen.finalChoices
     /\ \/ gen.finalChoices = <<>>
        \/ /\ Len(gen.finalChoices) = 4
           /\ \A i \in 1..Len(gen.finalChoices) :
                WellShapedChoice(gen.finalChoices[i])

(***************************************************************************)
(* C19: once StoryState holds a non-empty protagonist description no step  *)
(* other than a reset (to idle, or START from idle) changes it, and a      *)
(* chapter invocation started with one works with that description         *)
(* whatever description the director supplies.                             *)
(***************************************************************************)
C19_Step ==
  /\ (Truthy(context.characterDescription) /\ state # "idle" /\ state' # "idle")
        => context'.characterDescription = context.characterDescription
  /\ (gen'.kind = "chapter" /\ Truthy(gen'.input.characterDescription))
        => gen'.charDesc = gen'.input.characterDescription

C19_DescriptionFillOnce == [][C19_Step]_vars

\* a second chapter, whose director supplied "heroB", completed in a story
\* whose description was "heroA"
C19_Witness ==
  /\ state = "playing" /\ gen.kind = "chapter" /\ gen.pc = "resolved"
  /\ gen.run = 2
  /\ gen.directorNewNpcs = <<NpcOf("Ava", "d1"), NpcOf("Ava", "d2")>>
  /\ gen.mode = "pageRef"
  /\ context.characterDescription = "heroA"

(***************************************************************************)
(* C20: whatever order the panel tasks complete in, a chapter or ending    *)
(* completion appends the new panels in authored index order after the     *)
(* existing panels, and no step other than a reset removes, reorders or    *)
(* alters an existing panel.                                               *)
(***************************************************************************)
C20_Step ==
  LET old == context.allPanels
      new == context'.allPanels
  IN /\ (state # "idle" /\ state' # "idle") =>
           /\ Len(old) <= Len(new)
           /\ SubSeq(new, 1, Len(old)) = old
     /\ (InvocationActive /\ gen'.pc = "resolved") =>
           /\ Len(new) = Len(old) + gen.panelCount
           /\ \A i \in 1..gen.panelCount :
                /\ new[Len(old) + i].id = <<gen.run, i>>
                /\ new[Len(old) + i].soundEffectAudio = gen'.tasks[i].soundEffectAudio
                /\ new[Len(old) + i].stingerAudio = gen'.tasks[i].stingerAudio

C20_PanelOrder == [][C20_Step]_vars

\* a second invocation completed and its panels follow those of the first
C20_Witness ==
  /\ state = "playing" /\ gen.pc = "resolved" /\ gen.run = 2
  /\ gen.panelCount > 0
  /\ Len(context.allPanels) > gen.panelCount
  /\ context.allPanels[1].id = <<1, 1>>
  /\ context.allPanels[Len(context.allPanels)].id = <<2, gen.panelCount>>

(***************************************************************************)
(* C12: retry budget.  A task whose every request is rejected with a       *)
(* rate-limit error makes at most 1 + retries = 4 requests and is then     *)
(* rejected with the error of its last request; a request that succeeds is *)
(* the task's last one and its result resolves the task; and when every    *)
(* request is eventually answered every started task is settled: from some *)
(* point on no task is in flight.                                          *)
(***************************************************************************)
RateLimited(o) == o # "ok" /\ isRateLimitError(ErrorTable[o])

\* the requests issued for task id: the one made at its start and the ones
\* made after a backoff
RequestsOf(id) ==
  Cardinality({k \in 1..Len(startLog) : startLog[k].id = id})
    + Cardinality({r \in retryLog : r.id = id})

C12_Budget(id) ==
  LET log == attemptLog[id]
  IN /\ Len(log) <= retries + 1
     /\ RequestsOf(id) <= retries + 1
     /\ id \notin running /\ promise[id] # "pending" => RequestsOf(id) = Len(log)
     /\ \A k \in 1..Len(log) :
          log[k] = "ok" => /\ k = Len(log)
                           /\ promise[id] = "resolved"
                           /\ settledWith[id] = "ok"
                           /\ id \notin running
     /\ (Len(log) = retries + 1 /\ \A k \in 1..Len(log) : RateLimited(log[k]))
          => /\ promise[id] = "rejected"
             /\ settledWith[id] = log[Len(log)]
             /\ id \notin running

C12_RetryBudget ==
  /\ [](\A id \in TaskIds : C12_Budget(id))
  /\ <>[](running = {})

C12_Witness ==
  \E id \in TaskIds :
    /\ Len(attemptLog[id]) = retries + 1
    /\ \A k \in 1..Len(attemptLog[id]) : RateLimited(attemptLog[id][k])
    /\ promise[id] = "rejected"
    /\ Cardinality({r \in retryLog : r.id = id}) = retries

(***************************************************************************)
(* C13: a request of a started task that is rejected with an error not     *)
(* classified as rate limiting is the task's last request: in the same     *)
(* instant, with no backoff, the task is rejected with that error and its  *)
(* slot is released; a settled task makes no further request.              *)
(***************************************************************************)
C13_Step ==
  \A id \in TaskIds :
    /\ (/\ id \in running
        /\ Len(attemptLog'[id]) = Len(attemptLog[id]) + 1
        /\ attemptLog'[id][Len(attemptLog'[id])] # "ok"
        /\ ~RateLimited(attemptLog'[id][Len(attemptLog'[id])]))
         => /\ promise'[id] = "rejected"
            /\ settledWith'[id] = attemptLog'[id][Len(attemptLog'[id])]
            /\ id \notin running'
            /\ imageInFlight' = imageInFlight - 1
            /\ timersDue' = timersDue + 1
            /\ now' = now
            /\ wakeAt'[id] < 0
            /\ retryLog' = retryLog
    /\ promise[id] \in {"resolved", "rejected"}
         => /\ attemptLog'[id] = attemptLog[id]
            /\ {r \in retryLog' : r.id = id} = {r \in retryLog : r.id = id}
            /\ promise'[id] = promise[id]

C13_NoRetryOfOtherFailures == [][C13_Step]_vars

C13_Witness ==
  \E id \in TaskIds :
    /\ Len(attemptLog[id]) >= 2
    /\ settledWith[id] = "server"
    /\ promise[id] = "rejected"
    /\ \E k \in 1..Len(startLog) :
         startLog[k].id \in running /\ startLog[k].at > 0

(***************************************************************************)
(* C16: counting every request sent to the backend, the first request of   *)
(* each started task and every request re-issued after a backoff, at most  *)
(* IMAGE_RPM_LIMIT = 10 requests are started in the trailing minute and at *)
(* most IMAGE_CONCURRENCY_LIMIT = 3 are in flight.                         *)
(***************************************************************************)
RequestsInWindow(t) ==
  Cardinality({k \in 1..Len(startLog) : t - startLog[k].at < ONE_MINUTE_MS})
    + Cardinality({r \in retryLog : t - r.at < ONE_MINUTE_MS})

C16_AllRequestsLimited ==
  /\ RequestsInWindow(now) <= IMAGE_RPM_LIMIT
  /\ Cardinality({id \in TaskIds : Requesting(id)}) <= IMAGE_CONCURRENCY_LIMIT

(***************************************************************************)
(* C15: no lost wake-up.  Whenever tasks wait in the queue a re-check is   *)
(* pending: a due callback, the completion of a task in flight, or an      *)
(* armed timer; when only a timer is left, one is armed that fires after   *)
(* the oldest window entry has expired.  Hence, when started tasks settle  *)
(* and time advances, every scheduled task is started and its promise      *)
(* settled: from some point on nothing is queued, in flight or pending.    *)
(***************************************************************************)
C15_RecheckPending ==
  Len(imageQueue) > 0 =>
    \/ timersDue > 0
    \/ running # {}
    \/ /\ imageStartTimestamps # <<>>
       /\ \E d \in BagToSet(timers) :
            d >= imageStartTimestamps[1] + ONE_MINUTE_MS

C15_NoLostWakeup ==
  /\ []C15_RecheckPending
  /\ <>[](/\ imageQueue = <<>>
          /\ running = {}
          /\ \A id \in TaskIds : promise[id] # "pending")

C15_Witness ==
  /\ Len(startLog) > IMAGE_RPM_LIMIT
  /\ imageQueue = <<>>
  /\ running = {}
  /\ \A id \in TaskIds : promise[id] # "pending"
  /\ \E k \in 1..Len(startLog) :
       startLog[k].at >= startLog[1].at + ONE_MINUTE_MS

(***************************************************************************)
(* C11: after either load flow (CONTINUE into playing, VIEW_PREVIOUS into  *)
(* viewingPrevious) of a stored record whose mood has no drama axis, the   *)
(* context's mood has drama = 0.25 and keeps the stored value of every     *)
(* other axis.                                                             *)
(***************************************************************************)
C11_DramaDefaulted ==
  (/\ state \in {"playing", "viewingPrevious"}
   /\ gen.kind \in {"loadState", "loadCompleted"}
   /\ "drama" \notin DOMAIN gen.input.mood)
    => /\ "drama" \in DOMAIN context.mood
       /\ context.mood["drama"] = Quarter
       /\ \A a \in DOMAIN gen.input.mood : context.mood[a] = gen.input.mood[a]

(***************************************************************************)
(* C21: whenever the machine leaves generating or endingGenerating because *)
(* the pipeline invocation resolved or rejected, isGenerating is false in  *)
(* the state it enters.                                                    *)
(***************************************************************************)
\* the invocation of the current state settles in this step
InvocationSettles ==
  /\ state \in {"generating", "endingGenerating"}
  /\ gen.pc \notin {"resolved", "rejected"}
  /\ gen'.pc \in {"resolved", "rejected"}

C21_Step == InvocationSettles => state' = "playing" /\ ~context'.isGenerating

C21_FlagCleared == [][C21_Step]_vars

C21_Witness ==
  /\ state = "playing"
  /\ gen.kind = "ending"
  /\ gen.pc = "rejected"
  /\ ~context.isGenerating
  /\ context.ending # Null

(***************************************************************************)
(* C22: a chapter or ending generation is applied atomically.  While the   *)
(* invocation runs and after it fails, the panel sequence, the NPC roster, *)
(* the protagonist description and portrait and the background music are   *)
(* what they were when the generation was invoked; when it succeeds, the   *)
(* step that enters playing appends all its panels (and, for a chapter,    *)
(* its NPCs, and sets its choices and music) at once.                      *)
(***************************************************************************)
AtomicFields ==
  {"allPanels", "npcs", "characterDescription", "characterReference",
   "backgroundMusic"}

AsInvoked(ctx) == \A f \in AtomicFields : ctx[f] = gen.input[f]

C22_Step ==
  /\ (state \in {"generating", "endingGenerating"} /\ InvocationActive)
       => AsInvoked(context)
  /\ (InvocationSettles /\ gen'.pc = "rejected")
       => \A f \in AtomicFields : context'[f] = gen.input[f]
  /\ (InvocationSettles /\ gen'.pc = "resolved")
       => /\ context'.allPanels = gen.input.allPanels \o PanelsWithAudio(gen')
          /\ Len(context'.allPanels) = Len(gen.input.allPanels) + gen'.panelCount
          /\ gen.kind = "chapter"
               => /\ context'.npcs = gen.input.npcs \o gen'.createdOrReusedNpcs
                  /\ context'.choices = gen'.finalChoices
                  /\ context'.backgroundMusic = gen'.backgroundMusic
          /\ gen.kind = "ending"
               => \A f \in AtomicFields \ {"allPanels"} :
                    context'[f] = gen.input[f]

C22_AtomicApplication == [][C22_Step]_vars

C22_Witness ==
  /\ state = "playing"
  /\ gen.kind = "chapter"
  /\ gen.pc = "rejected"
  /\ \E i \in 1..Len(gen.tasks) : gen.tasks[i].done
  /\ Len(gen.input.allPanels) > 0
  /\ context.allPanels = gen.input.allPanels

(***************************************************************************)
(* C23: every failed pipeline invocation, of the chapter pipeline and of   *)
(* the ending pipeline alike, leaves a non-null error string in the        *)
(* context when the machine returns to playing.                            *)
(***************************************************************************)
C23_Step ==
  (InvocationSettles /\ gen'.pc = "rejected")
    => state' = "playing" /\ context'.error # Null

C23_FailureLeavesError == [][C23_Step]_vars

(***************************************************************************)
(* C24: in every active state VIEW_PREV and VIEW_NEXT move the viewing     *)
(* index by one and the result lies in [0, panelCount - 1]; the index is   *)
(* never negative, also when the panel sequence is empty.                  *)
(***************************************************************************)
\* a step that changes the viewing index and nothing else
NavigationStep ==
  /\ state \in ActiveStates
  /\ state' = state
  /\ context'.currentPanelIndex # context.currentPanelIndex
  /\ context' = [context EXCEPT !.currentPanelIndex = context'.currentPanelIndex]

C24_Step ==
  NavigationStep =>
    /\ context'.currentPanelIndex >= 0
    /\ Len(context.allPanels) > 0
         => context'.currentPanelIndex <= Len(context.allPanels) - 1
    /\ context'.currentPanelIndex \in
         {context.currentPanelIndex - 1, context.currentPanelIndex + 1}

C24_NavigationClamp == [][C24_Step]_vars

(***************************************************************************)
(* C25: EXIT_TO_MENU and RESTART release every transient handle of the     *)
(* context they discard, each panel's narration, sound-effect and stinger  *)
(* handle and the background-music handle, and leave the initial context.  *)
(***************************************************************************)
\* the object URLs a context holds (types.ts: Panel, StoryContext)
OwnedHandles(ctx) ==
  {h \in (1..Len(ctx.allPanels))
           \X {"narrativeAudio", "soundEffectAudio", "stingerAudio"} :
     ctx.allPanels[h[1]][h[2]]}
    \cup (IF Truthy(ctx.backgroundMusic) THEN {<<0, "backgroundMusic">>} ELSE {})

C25_Step ==
  (state \in ActiveStates \cup {"storyEnded"} /\ state' = "idle")
    => /\ OwnedHandles(context) \subseteq revoked'
       /\ context' = initialContext

C25_HandlesReleased == [][C25_Step]_vars

(***************************************************************************)
(* C26: a load of the saved story resumes in playing only when the snapshot*)
(* exists and holds both credentials; when the snapshot is absent or lacks *)
(* either credential the machine returns to idle with a non-null error and *)
(* an otherwise initial context.                                           *)
(***************************************************************************)
SavedLoadSettles == state = "loadingSavedStory" /\ state' # state

\* the snapshot the load actor resolved with holds both credentials
SnapshotUsable ==
  /\ gen'.kind = "loadState"
  /\ gen'.pc = "done"
  /\ saved # Null
  /\ Truthy(gen'.input.apiKey)
  /\ Truthy(gen'.input.elevenLabsApiKey)

C26_Step ==
  SavedLoadSettles =>
    /\ state' \in {"playing", "idle"}
    /\ state' = "playing" => SnapshotUsable
    /\ state' = "idle" =>
         /\ context'.error # Null
         /\ [context' EXCEPT !.error = Null] = initialContext

C26_NoResumeWithoutCredentials == [][C26_Step]_vars

C26_Witness ==
  /\ state = "idle"
  /\ gen.kind = "loadState"
  /\ saved # Null
  /\ ~Truthy(gen.input.apiKey)
  /\ Truthy(gen.input.elevenLabsApiKey)
  /\ context.error # Null

(***************************************************************************)
(* C27: when either load flow completes with a stored story, every panel   *)
(* of the restored context has its narration, sound-effect and stinger     *)
(* handles absent.                                                         *)
(***************************************************************************)
LoadCompletes ==
  /\ state \in {"loadingSavedStory", "loadingCompletedStory"}
  /\ state' \in {"playing", "viewingPrevious"}

C27_Step ==
  LoadCompletes =>
    \A i \in 1..Len(context'.allPanels) :
      /\ ~context'.allPanels[i].narrativeAudio
      /\ ~context'.allPanels[i].soundEffectAudio
      /\ ~context'.allPanels[i].stingerAudio

C27_LoadedPanelsSilent == [][C27_Step]_vars

(***************************************************************************)
(* C28: across every transition that is not a reset to the initial         *)
(* context, each mood axis of the next state is a number greater than or   *)
(* equal to its value before, for every MAKE_CHOICE the machine accepts.   *)
(***************************************************************************)
ResetStep == state' = "idle" /\ context' = initialContext

C28_Step ==
  ~ResetStep =>
    \A a \in Axes : FGe(context'.mood[a], context.mood[a])

C28_MoodNeverDecreases == [][C28_Step]_vars

(***************************************************************************)
(* C29: storyEnded is reachable from idle: after a start, a choice that    *)
(* saturates an axis and the ending panels appended and viewed to the      *)
(* last one, the machine can enter storyEnded, where RESTART is accepted.  *)
(***************************************************************************)
\* the ending pipeline resolved and the last ending panel is on view
EndingViewed ==
  /\ state = "playing"
  /\ gen.kind = "ending"
  /\ gen.pc = "resolved"
  /\ context.ending # Null
  /\ Len(context.allPanels) > Len(gen.input.allPanels)
  /\ context.currentPanelIndex = Len(context.allPanels) - 1

\* a transition of the machine, from any of its states, into storyEnded
EntersStoryEnded == (Next \/ LoadNext \/ Restart) /\ state' = "storyEnded"

C29_StoryEndedReachable == EndingViewed => ENABLED EntersStoryEnded

\* no state the machine reaches from idle is storyEnded
NeverStoryEnded == state # "storyEnded"

(***************************************************************************)
(* C30: every call to the image backend runs inside a task the request     *)
(* scheduler has started and not yet settled: the calls in progress belong *)
(* to started tasks, are no more than the in-flight count, and none is in  *)
(* progress while the in-flight count is 0.                                *)
(***************************************************************************)
ImageCallsInProgress == {id \in TaskIds : Requesting(id)}

C31_EndingOffersNoChoices ==
  context.ending # Null => context.choices = <<>>

\* back in playing with the ending panels appended
C31_Witness ==
  /\ state = "playing"
  /\ context.ending # Null
  /\ gen.kind = "ending" /\ gen.pc = "resolved"
  /\ Len(context.allPanels) > Len(gen.input.allPanels)
  /\ context.choices = <<>>

(***************************************************************************)
(* C32: in a chapter generation the text-only orchestrator call is made if *)
(* and only if the director call failed or returned no reference image;    *)
(* after a director call that returned a reference image the text call is  *)
(* not made and every panel is rendered through a page-referenced call,    *)
(* and after the text call no panel is rendered from a reference page.     *)
(***************************************************************************)
PastAuthoring == gen.pc \in {"npcs", "briefs", "batch", "panels", "fallback", "resolved"}

PanelsMapped == gen.pc \in {"panels", "fallback", "resolved"}

C32_TextFallbackIff ==
  gen.kind = "chapter" =>
    /\ gen.pc = "text" => ~gen.referencePage
    /\ PastAuthoring => (gen.storyData <=> ~gen.referencePage)
    /\ (PanelsMapped /\ gen.referencePage) =>
         /\ gen.mode = "pageRef"
         /\ \A i \in 1..Len(gen.tasks) : gen.tasks[i].pageRefCalled
    /\ gen.storyData =>
         /\ gen.mode # "pageRef"
         /\ \A i \in 1..Len(gen.tasks) : ~gen.tasks[i].pageRefCalled

\* a chapter authored by the text orchestrator after a failed director call
C32_Witness ==
  /\ gen.kind = "chapter" /\ gen.pc = "resolved"
  /\ gen.storyData /\ ~gen.referencePage
  /\ gen.mode = "batch"
  /\ Len(gen.tasks) > 0

\* a chapter authored by the director and rendered from its page
C32_WitnessPage ==
  /\ gen.kind = "chapter" /\ gen.pc = "resolved"
  /\ ~gen.storyData /\ gen.referencePage
  /\ Len(gen.tasks) > 0

(***************************************************************************)
(* C33: on the path without a reference page, after the batch image call   *)
(* failed, the per-panel image calls are issued one after the other: at    *)
(* most one panel callback of the chapter has issued its image call and    *)
(* not yet resumed, and it is the first panel that is not finished.        *)
(***************************************************************************)
\* the map callbacks that ran up to their await, each having called
\* generatePanelImage, and have not resumed
PendingPanelCalls ==
  IF gen.pc = "panels" THEN {i \in 1..Len(gen.tasks) : ~gen.tasks[i].done}
  ELSE {}

C33_SequentialPerPanel ==
  (gen.kind = "chapter" /\ gen.mode = "perPanel") =>
    /\ Cardinality(PendingPanelCalls) <= 1
    /\ \A i \in PendingPanelCalls : \A j \in 1..(i - 1) : gen.tasks[j].done

(***************************************************************************)
(* C34: with the default options the wait before the k-th retry (k = 0, 1, *)
(* 2) of a rate-limited task is min(1000, 250 * 2^k) + jitter with         *)
(* 0 <= jitter < 250, that is within [250, 500), [500, 750) and            *)
(* [1000, 1250); the exponential part is at most 1000 ms for every attempt *)
(* number.                                                                 *)
(***************************************************************************)
\* task id begins a backoff in this step
BackoffBegins(id) == wakeAt[id] < 0 /\ wakeAt'[id] >= 0

C34_Step ==
  /\ \A id \in TaskIds :
       BackoffBegins(id) =>
         LET k == attempt[id]
             delay == wakeAt'[id] - now
             exp == Min(1000, 250 * Pow2(k))
         IN /\ k \in 0..2
            /\ delay >= exp /\ delay < exp + 250
            /\ k = 0 => (delay >= 250 /\ delay < 500)
            /\ k = 1 => (delay >= 500 /\ delay < 750)
            /\ k = 2 => (delay >= 1000 /\ delay < 1250)
  /\ \A att \in 0..(retries + retries) :
       /\ BackoffDelay(att, 0) <= 1000
       /\ BackoffDelay(att, 0) = Min(1000, 250 * Pow2(att))

C34_BackoffDelay == [][C34_Step]_vars

\* a task waits before its third retry
C34_Witness ==
  \E id \in TaskIds :
    /\ id \in running
    /\ attempt[id] = 2
    /\ wakeAt[id] >= now + 1000

(***************************************************************************)
(* C35: VIEW_PREV, VIEW_NEXT and TOGGLE_MUTE received in generating or     *)
(* endingGenerating update the viewing index or the mute flag in that      *)
(* step, leave the machine in the same state, change no other field of the *)
(* context and neither restart nor cancel the invocation in flight.        *)
(***************************************************************************)
Generating == state \in {"generating", "endingGenerating"}

OnlyChanged(f) == context' = [context EXCEPT ![f] = context'[f]]

C35_Step ==
  /\ (Generating /\ ViewPrev) =>
       /\ context'.currentPanelIndex =
            (IF context.currentPanelIndex > 0
             THEN context.currentPanelIndex - 1 ELSE 0)
       /\ OnlyChanged("currentPanelIndex")
       /\ state' = state /\ gen' = gen
  /\ (Generating /\ ViewNext) =>
       /\ context'.currentPanelIndex =
            (IF context.currentPanelIndex + 1 <= Len(context.allPanels) - 1
             THEN context.currentPanelIndex + 1
             ELSE IF Len(context.allPanels) = 0 THEN 0
             ELSE Len(context.allPanels) - 1)
       /\ OnlyChanged("currentPanelIndex")
       /\ state' = state /\ gen' = gen
  /\ (Generating /\ ToggleMute) =>
       /\ context'.isMuted = ~context.isMuted
       /\ OnlyChanged("isMuted")
       /\ state' = state /\ gen' = gen

C35_EventsDuringGeneration == [][C35_Step]_vars

\* the mute flag was toggled, and the view moved back, while the second
\* invocation, an ending, is at its panel callbacks
C35_Witness ==
  /\ state = "endingGenerating"
  /\ gen.kind = "ending" /\ gen.pc = "panels"
  /\ context.isMuted # gen.input.isMuted
  /\ context.currentPanelIndex < gen.input.currentPanelIndex

(***************************************************************************)
(* C36: the NPC roster of the context never holds two entries with the     *)
(* same exact (name, description) pair: a character reused from the roster,*)
(* or introduced twice in one chapter, does not add a second entry.        *)
(***************************************************************************)
C36_RosterUnique ==
  \A i, j \in 1..Len(context.npcs) :
    (/\ context.npcs[i].name = context.npcs[j].name
     /\ context.npcs[i].description = context.npcs[j].description) => i = j

(***************************************************************************)
(* C37: in every reachable state isGenerating is true if and only if the   *)
(* machine is in generating or endingGenerating; it is false in idle,      *)
(* playing, viewingPrevious and storyEnded, also after a load flow has     *)
(* restored a snapshot.                                                    *)
(***************************************************************************)
C37_FlagMatchesState ==
  context.isGenerating <=> state \in {"generating", "endingGenerating"}

(***************************************************************************)
(* C38: in every reachable state with at least one panel the viewing index *)
(* lies in 0 .. panelCount - 1, and with no panels it is 0, after every    *)
(* event and every pipeline completion.                                    *)
(***************************************************************************)
C38_IndexInRange ==
  IF Len(context.allPanels) = 0
  THEN context.currentPanelIndex = 0
  ELSE /\ context.currentPanelIndex >= 0
       /\ context.currentPanelIndex <= Len(context.allPanels) - 1

(***************************************************************************)
(* C39: a pipeline result is applied only in the generating state that     *)
(* invoked it. After EXIT_TO_MENU during a chapter or ending generation,   *)
(* the later success or failure of the abandoned invocation changes        *)
(* neither the context nor the machine state, also when a new story was    *)
(* started and is itself generating.                                       *)
(***************************************************************************)
PendingAbandoned == {a \in abandoned : a.outcome = "pending"}

\* an abandoned invocation settles in this step
AbandonedSettlesNow ==
  \E a \in PendingAbandoned :
    \E b \in abandoned' : b.run = a.run /\ b.outcome # "pending"

C39_Step ==
  /\ AbandonedSettlesNow => UNCHANGED <<state, context, gen>>
  /\ (state \in {"generating", "endingGenerating"} /\ state' = "idle") =>
        /\ context' = initialContext
        /\ \E a \in abandoned' : a.run = gen.run /\ a.outcome = "pending"

RecordedEndingContexts ==
  {c \in EndedContexts :
     /\ Len(c.allPanels) = 2
     /\ c.error = Null
     /\ ~c.isMuted
     /\ c.npcs = <<>>
     /\ c.backgroundMusic = "music"}

\* a later session that CONTINUE has brought back to playing: the context is
\* the one loadingSavedStory.onDone assigns, no pipeline has run yet
RecordedEndingInit ==
  /\ SchedInit
  /\ state = "playing"
  /\ context \in {LoadedSavedContext(c) : c \in RecordedEndingContexts}
  /\ saved = "snapshot"
  /\ gen = GenIdle
  /\ invocations = 0
  /\ faults = 0
  /\ revoked = {}
  /\ abandoned = {}

\* playing.on.MAKE_CHOICE takes the event whatever choice it carries: the two
\* transitions look at context.mood and event.choice.impact only
MachineNext ==
  \/ GenerationNext
  \/ \E choice \in MadeChoices : MakeChoice(choice)

\* the generation cycle under every event sequence the machine accepts
SpecMachine == RecordedEndingInit /\ [][MachineNext]_vars

(***************************************************************************)
(* C40: the ending is terminal: once context.ending is recorded, until the *)
(* next reset (a step to idle) the marker never changes, the machine never *)
(* enters generating again and never enters endingGenerating a second      *)
(* time, for every sequence of events the machine accepts.                 *)
(***************************************************************************)
C40_Step ==
  (context.ending # Null /\ state' # "idle")
    => /\ context'.ending = context.ending
       /\ ~(state # "generating" /\ state' = "generating")
       /\ ~(state # "endingGenerating" /\ state' = "endingGenerating")

C40_EndingTerminal == [][C40_Step]_vars

====
